---- MODULE Spec2Model ----
(***************************************************************************)
(* GitGang: supervision of three coding-agent subprocesses (AgentRunner),  *)
(* the review loop (doReview), the merge engine (applyMergePlan) and the   *)
(* top-level driver (main).                                                *)
(*                                                                         *)
(* JavaScript runs every callback to completion; a step of this model is   *)
(* one callback (timer, process exit, output line, user command) or one    *)
(* stretch of an async function between two awaits that really suspend.    *)
(* AgentRunner.launch awaits an async function that contains no await of   *)
(* its own (runGemini/runClaude/runCodexCoder), so run()+launch() and      *)
(* timer+launch() complete within one macrotask and are one step each.     *)
(***************************************************************************)
EXTENDS Integers, Sequences, FiniteSets, TLC

VARIABLES sup, completionMap, orch, repo, dnf

vars == <<sup, completionMap, orch, repo, dnf>>

(***************************************************************************)
(* Program constants                                                       *)
(***************************************************************************)
AGENT_IDS == <<"gemini", "claude", "codex">>
Agents == {AGENT_IDS[i] : i \in 1..Len(AGENT_IDS)}

MAX_AGENT_RESTARTS == 3
INITIAL_AGENT_BACKOFF_MS == 2500
MAX_AGENT_BACKOFF_MS == 120000
MAX_CONSECUTIVE_ERRORS == 3
NUDGE_AFTER_MS == 180000
DEFAULT_AGENT_IDLE_TIMEOUT_MS == 420000
ERROR_LOOP_AFTER_MS == 120000
REVIEWER_MAX_RETRIES == 3
POST_MERGE_CHECK_ATTEMPTS == 3

(***************************************************************************)
(* Bounds of the model                                                     *)
(***************************************************************************)
\* run() calls the harness issues on the supervisor under test
MaxRuns == 2
\* cap on the consecutiveErrors counter (must reach MAX_CONSECUTIVE_ERRORS)
MaxErrors == 3
\* faults the environment injects into one run of the whole program: failed
\* spawns, non-zero exits, tool-error lines, heartbeat checks that act, /kill
MaxFaults == 2

Min(a, b) == IF a < b THEN a ELSE b

(***************************************************************************)
(* Inputs                                                                  *)
(***************************************************************************)
\* exit code of an agent process: 0, or any non-zero code
ExitCodes == {0, 1}
\* Date.now() - lastActivity, as read by one heartbeat check
IdleReadings == {0, NUDGE_AFTER_MS + 1, DEFAULT_AGENT_IDLE_TIMEOUT_MS + 1}
\* Date.now() - lastSuccessfulAction, as read by one heartbeat check; every
\* line that sets lastSuccessfulAction sets lastActivity too, and launch()
\* sets lastActivity alone, so this reading is never below the idle reading
SuccessReadings == IdleReadings \cup {ERROR_LOOP_AFTER_MS + 1}
\* one output line of an agent, by what onMessage makes of it
LineKinds == {"text", "toolError", "toolOk"}

(***************************************************************************)
(* AgentRunner: the fields of one supervisor, and history counters         *)
(*   alive       number of OS processes this runner spawned that have not  *)
(*               exited yet (this.proc only references the latest)         *)
(*   timers      pending restart timers (setTimeout in handleFailure)      *)
(*   launches    launch() calls since the last accepted run()              *)
(*   idleKilled  the idle check has sent kill() to the process this.proc   *)
(*               references, and its exit has not been handled yet         *)
(*   settleCalls settle() calls since the last accepted run()              *)
(***************************************************************************)
AgentRunner ==
  [ status |-> "idle", currentTask |-> "none", proc |-> FALSE, alive |-> 0,
    restarts |-> 0, backoffMs |-> INITIAL_AGENT_BACKOFF_MS,
    stopRequested |-> FALSE, globalTimeout |-> FALSE,
    completionResolver |-> FALSE, idleTimer |-> FALSE, timers |-> 0,
    consecutiveIdleRestarts |-> 0, consecutiveErrors |-> 0,
    result |-> "none", reason |-> "none",
    launches |-> 0, settleCalls |-> 0, idleKilled |-> FALSE ]

settle(s, status, reason) ==
  LET called == [s EXCEPT !.settleCalls = @ + 1] IN
  IF s.completionResolver
    THEN [called EXCEPT !.completionResolver = FALSE,
                        !.result = status, !.reason = reason]
    ELSE called

\* the delay handleFailure passes to setTimeout for the next restart
restartDelay(s) == Min(s.backoffMs, MAX_AGENT_BACKOFF_MS)

\* a plausible slip: the restart budget is not consulted
handleFailure_NoBudget(s, reason) ==
  IF ~s.stopRequested /\ ~s.globalTimeout
    THEN [s EXCEPT !.restarts = @ + 1, !.status = "restarting",
                   !.backoffMs = Min(@ * 2, MAX_AGENT_BACKOFF_MS),
                   !.timers = @ + 1]
    ELSE settle([s EXCEPT !.status = "failed"], "dnf", reason)

\* a plausible slip: every failed attempt is reported as the run's outcome
handleFailure_SettleEach(s, reason) ==
  IF s.restarts < MAX_AGENT_RESTARTS /\ ~s.stopRequested /\ ~s.globalTimeout
    THEN [settle(s, "dnf", reason)
            EXCEPT !.restarts = @ + 1, !.status = "restarting",
                   !.backoffMs = Min(@ * 2, MAX_AGENT_BACKOFF_MS),
                   !.timers = @ + 1]
    ELSE settle([s EXCEPT !.status = "failed"], "dnf", reason)

handleFailure(s, reason) ==
  IF s.restarts < MAX_AGENT_RESTARTS /\ ~s.stopRequested /\ ~s.globalTimeout
    THEN [s EXCEPT !.restarts = @ + 1, !.status = "restarting",
                   !.backoffMs = Min(@ * 2, MAX_AGENT_BACKOFF_MS),
                   !.timers = @ + 1]
    ELSE settle([s EXCEPT !.status = "failed"], "dnf", reason)

launch(s, spawnOk) ==
  LET l == [s EXCEPT !.launches = @ + 1] IN
  IF spawnOk
    THEN [l EXCEPT !.proc = TRUE, !.alive = @ + 1, !.status = "running",
                   !.idleTimer = TRUE]
    ELSE handleFailure(l, "spawn failed")

\* a plausible slip: a new run keeps the backoff the previous run reached
run_KeepsBackoff(s, spawnOk) ==
  launch([s EXCEPT !.restarts = 0,
                   !.stopRequested = FALSE, !.globalTimeout = FALSE,
                   !.status = "running", !.completionResolver = TRUE,
                   !.result = "none", !.reason = "none",
                   !.launches = 0, !.settleCalls = 0],
         spawnOk)

run(s, spawnOk) ==
  launch([s EXCEPT !.restarts = 0, !.backoffMs = INITIAL_AGENT_BACKOFF_MS,
                   !.stopRequested = FALSE, !.globalTimeout = FALSE,
                   !.status = "running", !.completionResolver = TRUE,
                   !.result = "none", !.reason = "none",
                   !.launches = 0, !.settleCalls = 0],
         spawnOk)

\* run(task): the task is stored first
runTask(s, task, spawnOk) == run([s EXCEPT !.currentTask = task], spawnOk)

\* a plausible slip: the guard of run() forgets the restarting state
runThrows_OnlyRunning(s) == s.status = "running"

\* run() throws "already running" instead of starting
runThrows(s) == s.status \in {"running", "restarting"}

\* a plausible slip: the global-timeout test comes before the stop test
handleExit_TimeoutFirst(s, exitCode) ==
  LET e == [s EXCEPT !.idleTimer = FALSE, !.proc = FALSE,
                     !.idleKilled = FALSE] IN
  IF e.globalTimeout
    THEN settle([e EXCEPT !.status = "failed"], "dnf", "Global timeout reached")
  ELSE IF e.stopRequested
    THEN [settle([e EXCEPT !.status = "idle"], "dnf", "Stopped manually")
            EXCEPT !.stopRequested = FALSE]
  ELSE IF exitCode = 0
    THEN settle([e EXCEPT !.status = "completed"], "success", "none")
  ELSE handleFailure(e, "exit code")

handleExit(s, exitCode) ==
  LET e == [s EXCEPT !.idleTimer = FALSE, !.proc = FALSE,
                     !.idleKilled = FALSE] IN
  IF e.stopRequested
    THEN [settle([e EXCEPT !.status = "idle"], "dnf", "Stopped manually")
            EXCEPT !.stopRequested = FALSE]
  ELSE IF e.globalTimeout
    THEN settle([e EXCEPT !.status = "failed"], "dnf", "Global timeout reached")
  ELSE IF exitCode = 0
    THEN settle([e EXCEPT !.status = "completed"], "success", "none")
  ELSE handleFailure(e, "exit code")

touch(s) == [s EXCEPT !.consecutiveIdleRestarts = 0]

\* a plausible slip: every line that is not an error clears the error count
onMessage_AnyLineResets(s, kind) ==
  CASE kind = "toolError" -> [s EXCEPT !.consecutiveErrors = @ + 1]
    [] OTHER              -> [s EXCEPT !.consecutiveErrors = 0]

onMessage(s, kind) ==
  CASE kind = "toolError" -> [s EXCEPT !.consecutiveErrors = @ + 1]
    [] kind = "toolOk"    -> [s EXCEPT !.consecutiveErrors = 0]
    [] OTHER              -> s

\* a plausible slip: the give-up threshold is one idle timeout too late
heartbeatVerdict_ThirdChance(s, idleFor, timeSinceSuccess) ==
  IF ~s.proc THEN "none"
  ELSE IF s.consecutiveErrors >= MAX_CONSECUTIVE_ERRORS
          /\ timeSinceSuccess > ERROR_LOOP_AFTER_MS THEN "errorLoop"
  ELSE IF idleFor > DEFAULT_AGENT_IDLE_TIMEOUT_MS
    THEN IF s.consecutiveIdleRestarts + 1 >= 3 THEN "giveUp" ELSE "idleKill"
  ELSE "none"

\* what one heartbeat check decides, from the clock readings it takes
heartbeatVerdict(s, idleFor, timeSinceSuccess) ==
  IF ~s.proc THEN "none"
  ELSE IF s.consecutiveErrors >= MAX_CONSECUTIVE_ERRORS
          /\ timeSinceSuccess > ERROR_LOOP_AFTER_MS THEN "errorLoop"
  ELSE IF idleFor > DEFAULT_AGENT_IDLE_TIMEOUT_MS
    THEN IF s.consecutiveIdleRestarts + 1 >= 2 THEN "giveUp" ELSE "idleKill"
  ELSE "none"

heartbeat(s, idleFor, timeSinceSuccess) ==
  LET v == heartbeatVerdict(s, idleFor, timeSinceSuccess) IN
  CASE v = "errorLoop" -> [s EXCEPT !.idleTimer = FALSE, !.stopRequested = TRUE]
    [] v = "giveUp"    -> [s EXCEPT !.consecutiveIdleRestarts = @ + 1,
                                    !.idleTimer = FALSE, !.stopRequested = TRUE]
    [] v = "idleKill"  -> [s EXCEPT !.consecutiveIdleRestarts = @ + 1,
                                    !.idleKilled = TRUE]
    [] OTHER           -> s

\* the reason recordDNF is called with by a heartbeat check, if it is
heartbeatRecord(s, idleFor, timeSinceSuccess) ==
  LET v == heartbeatVerdict(s, idleFor, timeSinceSuccess) IN
  CASE v = "errorLoop" -> "Agent stuck in error loop"
    [] v = "giveUp"    -> "Agent stuck/unresponsive"
    [] OTHER           -> "none"

terminate(s) == IF ~s.proc THEN s ELSE [s EXCEPT !.stopRequested = TRUE]

\* the value terminate() returns: false stands for "not running"
terminateReturns(s) == s.proc

notifyGlobalTimeout(s) == [s EXCEPT !.globalTimeout = TRUE]

(***************************************************************************)
(* recordDNF: DNF.md is overwritten by every call                          *)
(***************************************************************************)
recordDNF(d, reason) ==
  [d EXCEPT !.writes = @ + 1, !.file = reason, !.written = @ \cup {reason}]

(***************************************************************************)
(* State                                                                   *)
(*   sup            the three AgentRunner instances                        *)
(*   completionMap  main's map of first-run results, filled by the .then   *)
(*                  handler main chains on every first run() promise       *)
(*   orch           main's control state (and doReview's/applyMergePlan's) *)
(*                  orch.configured is the number given with --rounds, in  *)
(*                  halves (3 is 6 halves), or not a finite number;        *)
(*                  orch.rounds is what parseArgs returns for it           *)
(*   repo           the shared base checkout                               *)
(*   dnf            DNF.md                                                 *)
(***************************************************************************)
NoResults == [a \in Agents |-> "none"]

InitOrch(pc, rounds) ==
  [ pc |-> pc, rounds |-> rounds,
    configured |-> [finite |-> TRUE, halves |-> 2 * rounds],
    focus |-> "gemini", runs |-> 0,
    workspaces |-> 0, cleaned |-> FALSE,
    globalTimer |-> FALSE, roundTimer |-> FALSE,
    agentResults |-> NoResults,
    detail |-> FALSE,
    r |-> 0, attempt |-> 0, lastError |-> "none", revisions |-> << >>,
    mergeFor |-> {},
    order |-> << >>, merged |-> << >>, checks |-> << >>, check |-> 0,
    checkAttempt |-> 0, mergeResult |-> "none",
    finalStatus |-> "pending", dnfReason |-> "none", dnfDetails |-> "none",
    uncaught |-> "none",
    faults |-> 0 ]

InitRepo == [ branch |-> "base", dirty |-> FALSE, merging |-> FALSE,
              mergeBranch |-> FALSE ]

InitDnf == [ writes |-> 0, file |-> "none", written |-> {} ]

\* the run is over: main has returned, or main().catch has called
\* process.exit(1); what the agent processes do afterwards is not followed
Exited == orch.pc \in {"done", "crashed"}

\* main's .then on the promise of the first run() stores the result; main
\* reads the map for the last time when it stops waiting (Collect), and the
\* map is not followed after that
Deliver(a, s, s2) ==
  IF orch.pc \in {"agents", "grace"}
     /\ s.completionResolver /\ ~s2.completionResolver
    THEN [completionMap EXCEPT ![a] = s2.result]
    ELSE completionMap

SupStep(a, s2) ==
  /\ sup' = [sup EXCEPT ![a] = s2]
  /\ completionMap' = Deliver(a, sup[a], s2)

\* the harness explores one supervisor without a fault bound; a run of the
\* whole program takes at most MaxFaults faults
Charge(o, n) ==
  /\ orch.pc # "harness" => orch.faults + n <= MaxFaults
  /\ orch' = IF orch.pc = "harness" THEN o ELSE [o EXCEPT !.faults = @ + n]

Cost(isFault) == IF isFault THEN 1 ELSE 0

(***************************************************************************)
(* Events of one supervisor                                                *)
(***************************************************************************)
\* proc.exited resolves: one spawned process has exited with exitCode
ProcExit(a, exitCode) ==
  /\ ~Exited
  /\ sup[a].alive > 0
  /\ SupStep(a, handleExit([sup[a] EXCEPT !.alive = @ - 1], exitCode))
  /\ Charge(orch, Cost(exitCode # 0))
  /\ UNCHANGED <<repo, dnf>>

\* the setTimeout of handleFailure fires and calls launch()
RestartTimer(a, spawnOk) ==
  /\ ~Exited
  /\ sup[a].timers > 0
  /\ SupStep(a, launch([sup[a] EXCEPT !.timers = @ - 1], spawnOk))
  /\ Charge(orch, Cost(~spawnOk))
  /\ UNCHANGED <<repo, dnf>>

\* the setInterval callback of startHeartbeat
Heartbeat(a, idleFor, timeSinceSuccess) ==
  /\ ~Exited
  /\ sup[a].idleTimer
  /\ idleFor <= timeSinceSuccess
  /\ SupStep(a, heartbeat(sup[a], idleFor, timeSinceSuccess))
  /\ LET reason == heartbeatRecord(sup[a], idleFor, timeSinceSuccess) IN
       dnf' = IF reason = "none" THEN dnf ELSE recordDNF(dnf, reason)
  /\ Charge(orch, Cost(heartbeatVerdict(sup[a], idleFor, timeSinceSuccess)
                        # "none"))
  /\ UNCHANGED repo

\* streamToLog reads one line of a live process: onActivity, then onMessage
Output(a, kind) ==
  /\ ~Exited
  /\ sup[a].alive > 0
  /\ kind = "toolError" => sup[a].consecutiveErrors < MaxErrors
  /\ SupStep(a, onMessage(touch(sup[a]), kind))
  /\ Charge(orch, Cost(kind = "toolError"))
  /\ UNCHANGED <<repo, dnf>>

SupervisorEvents ==
  \E a \in Agents :
    \/ \E exitCode \in ExitCodes : ProcExit(a, exitCode)
    \/ \E spawnOk \in BOOLEAN : RestartTimer(a, spawnOk)
    \/ \E idleFor \in IdleReadings, tss \in SuccessReadings :
         Heartbeat(a, idleFor, tss)
    \/ \E kind \in LineKinds : Output(a, kind)

(***************************************************************************)
(* Harness: one supervisor driven by arbitrary calls of its public         *)
(* operations, in any interleaving with its own events                     *)
(***************************************************************************)
HarnessRun(a, spawnOk) ==
  /\ orch.pc = "harness" /\ a = orch.focus
  /\ orch.runs < MaxRuns
  /\ ~runThrows(sup[a])
  /\ SupStep(a, run(sup[a], spawnOk))
  /\ orch' = [orch EXCEPT !.runs = @ + 1]
  /\ UNCHANGED <<repo, dnf>>

\* run() called while running or restarting: it throws before any assignment
HarnessRunThrows(a) ==
  /\ orch.pc = "harness" /\ a = orch.focus
  /\ runThrows(sup[a])
  /\ orch' = [orch EXCEPT !.uncaught = "already running"]
  /\ UNCHANGED <<sup, completionMap, repo, dnf>>

HarnessTerminate(a) ==
  /\ orch.pc = "harness" /\ a = orch.focus
  /\ SupStep(a, terminate(sup[a]))
  /\ UNCHANGED <<orch, repo, dnf>>

HarnessGlobalTimeout(a) ==
  /\ orch.pc = "harness" /\ a = orch.focus
  /\ SupStep(a, notifyGlobalTimeout(sup[a]))
  /\ UNCHANGED <<orch, repo, dnf>>

HarnessCalls ==
  \E a \in Agents :
    \/ \E spawnOk \in BOOLEAN : HarnessRun(a, spawnOk)
    \/ HarnessRunThrows(a)
    \/ HarnessTerminate(a)
    \/ HarnessGlobalTimeout(a)

SupInit ==
  /\ sup = [a \in Agents |-> AgentRunner]
  /\ completionMap = NoResults
  /\ \E a \in Agents : orch = [InitOrch("harness", 1) EXCEPT !.focus = a]
  /\ repo = InitRepo
  /\ dnf = InitDnf

SupNext == HarnessCalls \/ SupervisorEvents

SupSpec == SupInit /\ [][SupNext]_vars

\* every launched process eventually exits, every backoff timer fires
SupFairness ==
  \A a \in Agents :
    /\ WF_vars(\E exitCode \in ExitCodes : ProcExit(a, exitCode))
    /\ WF_vars(\E spawnOk \in BOOLEAN : RestartTimer(a, spawnOk))

FairSupSpec == SupSpec /\ SupFairness

(***************************************************************************)
(* One supervisor on a clock: the heartbeat computes its readings from     *)
(* Date.now() and the time fields of the runner                            *)
(*   orch.now              Date.now()                                      *)
(*   lastActivity          time of the last launch or output line          *)
(*   lastSuccessfulAction  time of the last successful tool result         *)
(*   lastNudge             time of the last automatic nudge, 0 at first    *)
(*   nudges                automatic nudges sent so far (history)          *)
(***************************************************************************)
\* the clock advances in steps of TimeStep, MaxTicks times at most
TimeStep == 60000
MaxTicks == 9
MaxNudges == 2

\* Date.now() when the runner is constructed (milliseconds since 1970)
Epoch == NUDGE_AFTER_MS + TimeStep

TimedRunner ==
  [ lastActivity |-> Epoch, lastNudge |-> 0, lastSuccessfulAction |-> Epoch,
    nudges |-> 0 ] @@ AgentRunner

\* launch() notes the time before it spawns
timedLaunch(s, spawnOk, now) == launch([s EXCEPT !.lastActivity = now], spawnOk)

timedRun(s, spawnOk, now) == run([s EXCEPT !.lastActivity = now], spawnOk)

\* streamToLog: touch() notes the time of every line; a successful tool
\* result notes the time of the success
timedLine(s, kind, now) ==
  LET t == onMessage(touch([s EXCEPT !.lastActivity = now]), kind) IN
  IF kind = "toolOk" THEN [t EXCEPT !.lastSuccessfulAction = now] ELSE t

\* a plausible slip: the time of the previous nudge is not consulted
nudgeDue_IdleOnly(s, now) == now - s.lastActivity > NUDGE_AFTER_MS

\* the test the heartbeat makes before it nudges
nudgeDue(s, now) ==
  /\ now - s.lastActivity > NUDGE_AFTER_MS
  /\ now - s.lastNudge > NUDGE_AFTER_MS

\* a plausible slip: the idle check comes first, and its kill ends the check
timedHeartbeat_KillFirst(s, now) ==
  LET idleFor == now - s.lastActivity
      timeSinceSuccess == now - s.lastSuccessfulAction
      h == heartbeat(s, idleFor, timeSinceSuccess) IN
  IF ~s.proc THEN s
  ELSE IF heartbeatVerdict(s, idleFor, timeSinceSuccess) # "none" THEN h
  ELSE IF nudgeDue(s, now)
    THEN [h EXCEPT !.lastNudge = now, !.nudges = Min(@ + 1, MaxNudges)]
  ELSE h

\* the heartbeat callback: nothing without a process; the error-loop branch
\* returns before the nudge; the nudge comes before the idle check
timedHeartbeat(s, now) ==
  LET idleFor == now - s.lastActivity
      timeSinceSuccess == now - s.lastSuccessfulAction
      h == heartbeat(s, idleFor, timeSinceSuccess) IN
  IF ~s.proc THEN s
  ELSE IF heartbeatVerdict(s, idleFor, timeSinceSuccess) = "errorLoop" THEN h
  ELSE IF nudgeDue(s, now)
    THEN [h EXCEPT !.lastNudge = now, !.nudges = Min(@ + 1, MaxNudges)]
  ELSE h

Tick ==
  /\ orch.pc = "timed"
  /\ orch.now < Epoch + MaxTicks * TimeStep
  /\ orch' = [orch EXCEPT !.now = @ + TimeStep]
  /\ UNCHANGED <<sup, completionMap, repo, dnf>>

TimedRun(a, spawnOk) ==
  /\ orch.pc = "timed" /\ a = orch.focus
  /\ orch.runs < MaxRuns
  /\ ~runThrows(sup[a])
  /\ SupStep(a, timedRun(sup[a], spawnOk, orch.now))
  /\ orch' = [orch EXCEPT !.runs = @ + 1]
  /\ UNCHANGED <<repo, dnf>>

TimedExit(a, exitCode) ==
  /\ orch.pc = "timed"
  /\ sup[a].alive > 0
  /\ SupStep(a, handleExit([sup[a] EXCEPT !.alive = @ - 1], exitCode))
  /\ UNCHANGED <<orch, repo, dnf>>

TimedRestart(a, spawnOk) ==
  /\ orch.pc = "timed"
  /\ sup[a].timers > 0
  /\ SupStep(a, timedLaunch([sup[a] EXCEPT !.timers = @ - 1], spawnOk,
                            orch.now))
  /\ UNCHANGED <<orch, repo, dnf>>

TimedOutput(a, kind) ==
  /\ orch.pc = "timed"
  /\ sup[a].alive > 0
  /\ kind = "toolError" => sup[a].consecutiveErrors < MaxErrors
  /\ SupStep(a, timedLine(sup[a], kind, orch.now))
  /\ UNCHANGED <<orch, repo, dnf>>

TimedHeartbeat(a) ==
  /\ orch.pc = "timed"
  /\ sup[a].idleTimer
  /\ SupStep(a, timedHeartbeat(sup[a], orch.now))
  /\ LET reason == IF sup[a].proc
                     THEN heartbeatRecord(sup[a],
                            orch.now - sup[a].lastActivity,
                            orch.now - sup[a].lastSuccessfulAction)
                     ELSE "none" IN
       dnf' = IF reason = "none" THEN dnf ELSE recordDNF(dnf, reason)
  /\ UNCHANGED <<orch, repo>>

TimedInit ==
  /\ sup = [a \in Agents |-> TimedRunner]
  /\ completionMap = NoResults
  /\ orch = [now |-> Epoch] @@ InitOrch("timed", 1)
  /\ repo = InitRepo
  /\ dnf = InitDnf

TimedNext ==
  \/ Tick
  \/ \E a \in Agents :
       \/ \E spawnOk \in BOOLEAN : TimedRun(a, spawnOk)
       \/ \E exitCode \in ExitCodes : TimedExit(a, exitCode)
       \/ \E spawnOk \in BOOLEAN : TimedRestart(a, spawnOk)
       \/ \E kind \in LineKinds : TimedOutput(a, kind)
       \/ TimedHeartbeat(a)

TimedSpec == TimedInit /\ [][TimedNext]_vars

(***************************************************************************)
(* main(): setup, first runs, the race with the round timeout              *)
(***************************************************************************)
\* rounds of review main may drive (opts.rounds)
MaxRounds == 2
\* length of the revisions list of a reviewer decision
MaxRevisions == 1
\* the same, for a reviewer that is followed in detail
MaxListed == 2
\* length of mergePlan.order in a reviewer decision that carries a plan
MaxOrderLen == 2
\* number of mergePlan.postMergeChecks in a reviewer decision that carries a
\* plan
MaxChecks == 2

Max(a, b) == IF a > b THEN a ELSE b

SeqsUpTo(S, n) == UNION {[1..k -> S] : k \in 0..n}

RevisionLists(detail) ==
  SeqsUpTo(Agents, IF detail THEN MaxListed ELSE MaxRevisions)
MergeOrders == SeqsUpTo(Agents, MaxOrderLen)

DEFAULT_POST_MERGE_CHECKS == <<"bun test">>
\* commands a reviewer may list as postMergeChecks
CheckCommands == {"bun run lint", "bun run typecheck"}
CheckLists == SeqsUpTo(CheckCommands, MaxChecks)
\* exit codes of a post-merge check command
CheckExitCodes(detail) == IF detail THEN {0, 1, 2} ELSE ExitCodes

\* the task given on the command line, and the instructions of a revision
TASK == "task"
INSTRUCTIONS == "instructions"

\* The whole program (Spec) is followed with reviewers that leave mergePlan
\* empty and with the texts of errors cut to their fixed part; the reviewer
\* loop on its own (ReviewSpec) is followed with merge plans and full texts
\* (orch.detail).
text(o, s) == IF o.detail THEN s ELSE "none"
naming(o, s, name) == IF o.detail THEN s \o name ELSE s

\* the three worktrees are created one after the other; any git failure throws
\* out of main, and the agents are started only after the third
Setup(created, spawnOk) ==
  /\ orch.pc = "start"
  /\ IF created < Len(AGENT_IDS)
       THEN /\ orch' = [orch EXCEPT !.pc = "crashed", !.workspaces = created,
                                    !.uncaught = "setup"]
            /\ UNCHANGED <<sup, completionMap>>
       ELSE /\ Charge([orch EXCEPT !.pc = "agents", !.workspaces = created,
                                 !.globalTimer = TRUE, !.roundTimer = TRUE],
                   Cardinality({a \in Agents : ~spawnOk[a]}))
            /\ sup' = [a \in Agents |->
                        runTask(sup[a], text(orch, TASK), spawnOk[a])]
            /\ completionMap' =
                 [a \in Agents |-> IF sup'[a].completionResolver THEN "none"
                                   ELSE sup'[a].result]
  /\ UNCHANGED <<repo, dnf>>

\* the global timer of main fires
GlobalTimeout ==
  /\ ~Exited
  /\ orch.globalTimer
  /\ orch' = [orch EXCEPT !.globalTimer = FALSE]
  /\ sup' = [a \in Agents |-> notifyGlobalTimeout(sup[a])]
  /\ UNCHANGED <<completionMap, repo, dnf>>

\* /kill <agent> typed at the command palette, open until rl.close()
UserKill(a) ==
  /\ orch.pc \notin {"harness", "start", "cleanup", "done", "crashed"}
  /\ sup[a].proc
  /\ SupStep(a, terminate(sup[a]))
  /\ Charge(orch, 1)
  /\ UNCHANGED <<repo, dnf>>

\* a plausible slip: an agent that is still running counts as usable
agentResult_RunningCounts(a) ==
  IF completionMap[a] # "none" THEN completionMap[a]
  ELSE IF sup[a].status \in {"completed", "running"} THEN "success" ELSE "dnf"

\* result main uses for an agent once it stops waiting
agentResult(a) ==
  IF completionMap[a] # "none" THEN completionMap[a]
  ELSE IF sup[a].status = "completed" THEN "success" ELSE "dnf"

\* a plausible slip: any agent that has settled counts as usable
reviewNeeded_AnySettled(results) ==
  \E a \in Agents : completionMap[a] # "none"

\* main proceeds to the reviewer loop
reviewNeeded(results) ==
  \E a \in Agents : results[a] = "success"

\* a plausible slip: the round-limit path forgets its recordDNF
mainOutcome_NoRecord(o, outcome, reason) ==
  CASE outcome = "approved" ->
         [o |-> [o EXCEPT !.finalStatus = "approved", !.pc = "cleanup"],
          rec |-> "none"]
    [] outcome = "dnf" ->
         [o |-> [o EXCEPT !.finalStatus = "dnf", !.dnfReason = reason,
                          !.pc = "cleanup"],
          rec |-> reason]
    [] OTHER ->
         IF o.r + 1 <= Max(1, o.rounds)
           THEN [o |-> [o EXCEPT !.r = @ + 1, !.pc = "review"],
                 rec |-> "none"]
           ELSE [o |-> [o EXCEPT !.finalStatus = "dnf", !.pc = "cleanup",
                          !.dnfReason =
                            "Reviewer did not approve within allotted rounds"],
                 rec |-> "none"]

\* what main does with the value doReview returns: the new control state and
\* the reason it calls recordDNF with ("none": no call)
mainOutcome(o, outcome, reason) ==
  CASE outcome = "approved" ->
         [o |-> [o EXCEPT !.finalStatus = "approved", !.pc = "cleanup"],
          rec |-> "none"]
    [] outcome = "dnf" ->
         [o |-> [o EXCEPT !.finalStatus = "dnf", !.dnfReason = reason,
                          !.pc = "cleanup"],
          rec |-> reason]
    [] OTHER ->
         IF o.r + 1 <= Max(1, o.rounds)
           THEN [o |-> [o EXCEPT !.r = @ + 1, !.pc = "review"],
                 rec |-> "none"]
           ELSE [o |-> [o EXCEPT !.finalStatus = "dnf", !.pc = "cleanup",
                          !.dnfReason =
                            "Reviewer did not approve within allotted rounds"],
                 rec |-> "Reviewer did not approve within allotted rounds"]

\* doReview returns to main
ReviewReturns(o, outcome, reason) ==
  LET m == mainOutcome(o, outcome, reason) IN
  /\ orch' = m.o
  /\ dnf' = IF m.rec = "none" THEN dnf ELSE recordDNF(dnf, m.rec)

\* a plausible slip: the global timer is left armed
collected_KeepsGlobalTimer(o, results) ==
  [o EXCEPT !.roundTimer = FALSE, !.agentResults = results]

\* main after the race and the grace period: agentResults is computed and
\* both timers are cleared
collected(o, results) ==
  [o EXCEPT !.globalTimer = FALSE, !.roundTimer = FALSE,
            !.agentResults = results]

\* main stops waiting for the first runs and decides how to go on
Collect(o) ==
  LET results == [a \in Agents |-> agentResult(a)]
      c == collected(o, results)
  IN
  IF reviewNeeded(results)
    THEN /\ orch' = [c EXCEPT !.pc = "review", !.r = 1]
         /\ dnf' = dnf
    ELSE /\ orch' = [c EXCEPT !.pc = "cleanup", !.finalStatus = "dnf",
                              !.dnfReason = "No agent completed the task"]
         /\ dnf' = recordDNF(dnf, "No agent completed the task")

\* Promise.all of the three first runs wins the race
AllSettled ==
  /\ orch.pc = "agents"
  /\ \A a \in Agents : completionMap[a] # "none"
  /\ Collect(orch)
  /\ UNCHANGED <<sup, completionMap, repo>>

\* the round timer wins the race; main then sleeps POST_TIMEOUT_GRACE_MS
RoundTimeout ==
  /\ orch.pc = "agents"
  /\ orch.roundTimer
  /\ orch' = [orch EXCEPT !.pc = "grace", !.roundTimer = FALSE]
  /\ UNCHANGED <<sup, completionMap, repo, dnf>>

GraceElapsed ==
  /\ orch.pc = "grace"
  /\ Collect(orch)
  /\ UNCHANGED <<sup, completionMap, repo>>

\* rl.close(), dashboard.stop(), cleanup()
Cleanup ==
  /\ orch.pc = "cleanup"
  /\ orch' = [orch EXCEPT !.pc = "done", !.cleaned = TRUE]
  /\ UNCHANGED <<sup, completionMap, repo, dnf>>

(***************************************************************************)
(* doReview and runRevisionRequests                                        *)
(***************************************************************************)
\* one reviewer attempt as the code sees it: how the process ended, and the
\* first JSON object of its stdout ("none": nothing parseable). The reviewer
\* of a run either leaves mergePlan empty in every decision or fills in
\* order and postMergeChecks.
ReviewerAttempts(plans) ==
  {[exit |-> e, decision |-> "none", revisions |-> << >>, order |-> << >>,
    checks |-> << >>] : e \in {"timeout", "nonzero", "zero"}}
  \cup {[exit |-> "zero", decision |-> "approve", revisions |-> << >>,
         order |-> ord, checks |-> cs] :
           ord \in IF plans THEN MergeOrders ELSE {<< >>},
           cs \in IF plans THEN CheckLists ELSE {<< >>}}
  \cup {[exit |-> "zero", decision |-> "revise", revisions |-> revs,
         order |-> << >>, checks |-> << >>] : revs \in RevisionLists(plans)}
  \cup {[exit |-> "zero", decision |-> "unknown", revisions |-> << >>,
         order |-> << >>, checks |-> << >>]}

\* the merge order applyMergePlan uses: the plan's, or the three agent
\* branches (a branch is named by its agent)
mergeOrder(order) == IF Len(order) > 0 THEN order ELSE AGENT_IDS

\* the checks applyMergePlan runs: the plan's, or DEFAULT_POST_MERGE_CHECKS
mergeChecks(listed) ==
  IF Len(listed) > 0 THEN listed ELSE DEFAULT_POST_MERGE_CHECKS

\* the branches doReview hands to the reviewer process
reviewerBranches(results) == Agents

\* the message of a failed attempt
attemptError(att) ==
  IF att.exit = "timeout" THEN "Reviewer timeout or error"
  ELSE IF att.exit = "nonzero" THEN "Reviewer exited with code"
  ELSE IF att.decision = "none" THEN "Reviewer did not emit valid JSON"
  ELSE IF att.decision = "revise"
    THEN "Reviewer requested revisions but none listed"
  ELSE "Unknown reviewer status"

\* a plausible slip: the first error of the round is kept
lastErrorAfter_KeepsFirst(prev, att) ==
  IF prev = "none" THEN attemptError(att) ELSE prev

\* lastError after a failed attempt: every failing branch of the loop
\* assigns it
lastErrorAfter(prev, att) == attemptError(att)

\* a plausible slip: every decision that is not "revise" is taken as approval
doReviewBranch_ElseApproves(att) ==
  IF att.exit # "zero" \/ att.decision = "none" THEN "retry"
  ELSE IF att.decision = "revise"
    THEN IF Len(att.revisions) = 0 THEN "retry" ELSE "revise"
  ELSE "merge"

\* a plausible slip: a parsed decision that asks for nothing is taken as approval
doReviewBranch_MergeOnEmpty(att) ==
  IF att.exit # "zero" \/ att.decision = "none" THEN "retry"
  ELSE IF att.decision = "approve" THEN "merge"
  ELSE IF att.decision = "revise"
    THEN IF Len(att.revisions) = 0 THEN "merge" ELSE "revise"
  ELSE "retry"

\* the branch the attempt loop of doReview takes
doReviewBranch(att) ==
  IF att.exit # "zero" \/ att.decision = "none" THEN "retry"
  ELSE IF att.decision = "approve" THEN "merge"
  ELSE IF att.decision = "revise"
    THEN IF Len(att.revisions) = 0 THEN "retry" ELSE "revise"
  ELSE "retry"

\* git checkout <base> at the top of doReview
ReviewCheckout ==
  /\ orch.pc = "review"
  /\ repo' = [repo EXCEPT !.branch = "base"]
  /\ orch' = [orch EXCEPT !.pc = "reviewer", !.attempt = 1,
                          !.lastError = "none"]
  /\ UNCHANGED <<sup, completionMap, dnf>>

\* one iteration of the attempt loop: spawn the reviewer, wait, parse, branch
ReviewerAttempt(att) ==
  /\ orch.pc = "reviewer"
  /\ LET o == [orch EXCEPT !.attempt = 0, !.lastError = "none"]
         b == doReviewBranch(att)
     IN
     CASE b = "merge" ->
            /\ orch' = [o EXCEPT !.pc = "merge_create",
                                 !.mergeFor = @ \cup {att.decision},
                                 !.order = mergeOrder(att.order),
                                 !.checks = mergeChecks(att.checks),
                                 !.merged = << >>, !.mergeResult = "running"]
            /\ dnf' = dnf
       [] b = "revise" ->
            /\ orch' = [o EXCEPT !.pc = "revision", !.revisions = att.revisions]
            /\ dnf' = dnf
       [] OTHER ->
            LET failed ==
                  [orch EXCEPT
                     !.lastError =
                       text(orch, lastErrorAfter(orch.lastError, att))] IN
            IF orch.attempt < REVIEWER_MAX_RETRIES
              THEN /\ orch' = [failed EXCEPT !.attempt = @ + 1]
                   /\ dnf' = dnf
              ELSE ReviewReturns([failed EXCEPT !.attempt = 0,
                                               !.lastError = "none",
                                               !.dnfDetails = failed.lastError],
                                 "dnf", "Reviewer failed to converge")
  /\ UNCHANGED <<sup, completionMap, repo>>

\* a plausible slip: the agent is sent the reviewer's instructions alone
revisionTask_InstructionsOnly(task, instructions) ==
  "Follow up from reviewer: " \o instructions
    \o " Keep going until checks pass."

\* the task runRevisionRequests passes to run()
revisionTask(task, instructions) ==
  task \o " Follow up from reviewer: " \o instructions
    \o " Keep going until checks pass."

\* runRevisionRequests calls run() on the next listed agent; run() throwing
\* rejects doReview and main, and main().catch exits the process
RevisionCall(spawnOk) ==
  /\ orch.pc = "revision"
  /\ LET a == orch.revisions[1] IN
     IF runThrows(sup[a])
       THEN /\ orch' = [orch EXCEPT !.pc = "crashed",
                                    !.uncaught = "already running"]
            /\ UNCHANGED <<sup, completionMap>>
       ELSE /\ Charge([orch EXCEPT !.pc = "revision_wait"], Cost(~spawnOk))
            /\ sup' = [sup EXCEPT ![a] =
                        runTask(sup[a],
                                text(orch, revisionTask(TASK, INSTRUCTIONS)),
                                spawnOk)]
            /\ UNCHANGED completionMap
  /\ UNCHANGED <<repo, dnf>>

\* a plausible slip: the loop goes on to the next listed agent after a
\* failed run
revisionOutcome_GoesOn(result, remaining) ==
  IF remaining > 0 THEN "next"
  ELSE IF result # "success" THEN "dnf"
  ELSE "revisions"

\* runRevisionRequests after the awaited run has settled, with remaining
\* entries of the list still to run
revisionOutcome(result, remaining) ==
  IF result # "success" THEN "dnf"
  ELSE IF remaining > 0 THEN "next"
  ELSE "revisions"

\* the awaited revision run settles
RevisionSettled ==
  /\ orch.pc = "revision_wait"
  /\ LET a == orch.revisions[1]
         v == revisionOutcome(sup[a].result, Len(orch.revisions) - 1) IN
     /\ ~sup[a].completionResolver
     /\ CASE v = "dnf" ->
               ReviewReturns([orch EXCEPT !.revisions = << >>], "dnf",
                             "Agent could not complete reviewer instructions")
          [] v = "next" ->
               /\ orch' = [orch EXCEPT !.pc = "revision",
                                       !.revisions = Tail(@)]
               /\ dnf' = dnf
          [] OTHER ->
               ReviewReturns([orch EXCEPT !.revisions = << >>],
                             "revisions", "none")
  /\ UNCHANGED <<sup, completionMap, repo>>

(***************************************************************************)
(* applyMergePlan                                                          *)
(*   repo.branch       the branch checked out in the base repository       *)
(*   repo.dirty        git status --porcelain is not empty                 *)
(*   repo.merging      a merge is in progress (unmerged paths)             *)
(*   repo.mergeBranch  the ai-merge-* branch exists                        *)
(***************************************************************************)

\* applyMergePlan returns ok:false to doReview, which returns dnf to main
MergeFails(o, reason) ==
  ReviewReturns([o EXCEPT !.mergeResult = "failed"], "dnf", reason)

\* git checkout <base>; git checkout -b ai-merge-<ts> <base>
MergeCreate(ok) ==
  /\ orch.pc = "merge_create"
  /\ IF ok
       THEN /\ repo' = [repo EXCEPT !.branch = "merge", !.mergeBranch = TRUE]
            /\ orch' = [orch EXCEPT !.pc = "merge_branches"]
            /\ dnf' = dnf
       ELSE /\ repo' = [repo EXCEPT !.branch = "base"]
            /\ MergeFails(orch, "Failed to create merge branch")
  /\ UNCHANGED <<sup, completionMap>>

\* a plausible slip: a branch that does not merge is skipped unless it is
\* the last one
mergeLoop_SkipsConflict(ok, next, n) ==
  IF next = n THEN IF ok THEN "checks" ELSE "abort"
  ELSE "next"

\* the loop over the order after git merge of branch number next of n has
\* succeeded or thrown
mergeLoop(ok, next, n) ==
  IF ~ok THEN "abort"
  ELSE IF next = n THEN "checks"
  ELSE "next"

\* git merge --no-ff <branch> for the next branch of the order
MergeBranch(ok) ==
  /\ orch.pc = "merge_branches"
  /\ LET ord == orch.order
         next == Len(orch.merged) + 1
         v == mergeLoop(ok, next, Len(ord))
     IN
     IF v # "abort"
       THEN /\ orch' = [orch EXCEPT
                          !.merged = Append(@, ord[next]),
                          !.pc = IF v = "checks" THEN "merge_checks"
                                 ELSE "merge_branches",
                          !.check = IF v = "checks" THEN 1 ELSE 0,
                          !.checkAttempt = IF v = "checks" THEN 1 ELSE 0]
            /\ repo' = repo
       ELSE /\ orch' = [orch EXCEPT !.pc = "merge_abort"]
            /\ repo' = [repo EXCEPT !.merging = TRUE, !.dirty = TRUE]
  /\ UNCHANGED <<sup, completionMap, dnf>>

\* the catch of a failed merge: git merge --abort; git checkout <base>
MergeAbort ==
  /\ orch.pc = "merge_abort"
  /\ repo' = [repo EXCEPT !.merging = FALSE, !.dirty = FALSE,
                          !.branch = "base"]
  /\ MergeFails(orch, naming(orch, "Merge conflict",
                             " with " \o orch.order[Len(orch.merged) + 1]))
  /\ UNCHANGED <<sup, completionMap>>

\* a plausible slip: the retry loop makes one attempt too many
checkRetries_OneMore(attempt, exitCode) ==
  IF exitCode = 0 THEN "passed"
  ELSE IF attempt < POST_MERGE_CHECK_ATTEMPTS + 1 THEN "retry"
  ELSE "failed"

\* runPostMergeCheckWithRetries after an attempt has exited with exitCode
checkRetries(attempt, exitCode) ==
  IF exitCode = 0 THEN "passed"
  ELSE IF attempt < POST_MERGE_CHECK_ATTEMPTS THEN "retry"
  ELSE "failed"

\* one attempt of runPostMergeCheckWithRetries: the command exits with
\* exitCode and may leave files behind in the working tree
PostMergeCheck(exitCode, writes) ==
  /\ orch.pc = "merge_checks"
  /\ repo' = [repo EXCEPT !.dirty = @ \/ writes]
  /\ LET o == orch
         v == checkRetries(orch.checkAttempt, exitCode) IN
     orch' =
       CASE v = "passed" ->
              IF orch.check = Len(orch.checks)
                THEN [o EXCEPT !.pc = "merge_finish", !.check = 0,
                               !.checkAttempt = 0]
                ELSE [o EXCEPT !.check = @ + 1, !.checkAttempt = 1]
         [] v = "retry" -> [o EXCEPT !.checkAttempt = @ + 1]
         [] OTHER ->
              [o EXCEPT !.pc = "merge_check_failed", !.checkAttempt = 0,
                        !.check = IF o.detail THEN @ ELSE 0,
                        !.dnfDetails =
                          text(o, "Exit code " \o ToString(exitCode))]
  /\ UNCHANGED <<sup, completionMap, dnf>>

\* after a check failed for good: git checkout <base>, errors ignored.
\* With uncommitted changes git either carries them over to base or refuses
\* to switch; with a clean tree it switches.
CheckFailed(switched) ==
  /\ orch.pc = "merge_check_failed"
  /\ ~repo.dirty => switched
  /\ repo' = [repo EXCEPT !.branch = IF switched THEN "base" ELSE @]
  /\ MergeFails([orch EXCEPT !.check = 0],
                naming(orch, "Post-merge check failed",
                       IF orch.check > 0
                         THEN " (" \o orch.checks[orch.check] \o ")"
                         ELSE ""))
  /\ UNCHANGED <<sup, completionMap>>

\* a plausible slip: the result is returned without the final commit
commitResidual_Skipped(r) == r

\* git status --porcelain and, if it prints anything, git add -A and one
\* git commit
commitResidual(r) == [r EXCEPT !.dirty = FALSE]

\* the final commit, then ok:true
MergeFinish ==
  /\ orch.pc = "merge_finish"
  /\ repo' = commitResidual(repo)
  /\ ReviewReturns([orch EXCEPT !.mergeResult = "ok"], "approved", "none")
  /\ UNCHANGED <<sup, completionMap>>

(***************************************************************************)
(* The whole program                                                       *)
(***************************************************************************)
Init ==
  /\ sup = [a \in Agents |-> AgentRunner]
  /\ completionMap = NoResults
  /\ \E n \in 1..MaxRounds : orch = InitOrch("start", n)
  /\ repo = InitRepo
  /\ dnf = InitDnf

MainSteps ==
  \/ \E created \in 0..Len(AGENT_IDS), spawnOk \in [Agents -> BOOLEAN] :
       Setup(created, spawnOk)
  \/ GlobalTimeout
  \/ RoundTimeout
  \/ AllSettled
  \/ GraceElapsed
  \/ Cleanup
  \/ \E a \in Agents : UserKill(a)

ReviewSteps ==
  \/ ReviewCheckout
  \/ \E att \in ReviewerAttempts(orch.detail) : ReviewerAttempt(att)
  \/ \E spawnOk \in BOOLEAN : RevisionCall(spawnOk)
  \/ RevisionSettled

MergeSteps ==
  \/ \E ok \in BOOLEAN : MergeCreate(ok)
  \/ \E ok \in BOOLEAN : MergeBranch(ok)
  \/ MergeAbort
  \/ \E exitCode \in CheckExitCodes(orch.detail), writes \in BOOLEAN :
       PostMergeCheck(exitCode, writes)
  \/ \E switched \in BOOLEAN : CheckFailed(switched)
  \/ MergeFinish

Next == MainSteps \/ ReviewSteps \/ MergeSteps \/ SupervisorEvents

Spec == Init /\ [][Next]_vars

(***************************************************************************)
(* The first runs on their own: the program up to the moment main has      *)
(* decided between the reviewer loop and giving up                         *)
(***************************************************************************)
FirstRunsNext == MainSteps \/ SupervisorEvents

FirstRunsSpec == Init /\ [][FirstRunsNext]_vars

(***************************************************************************)
(* The reviewer loop on its own: the program from the moment main stops    *)
(* waiting for the first runs.                                             *)
(*   ReviewSpec  any configured number of rounds with first runs that have *)
(*               settled; one round with first runs that are still running *)
(*   PlanSpec    reviewers that write merge plans, error texts in full;    *)
(*               one round, first runs that have settled                   *)
(***************************************************************************)
\* values of --rounds: -1, 0.5, 3 (also the default), 9.5, 12, not a number
RawRounds ==
  {[finite |-> TRUE, halves |-> h] : h \in {-2, 1, 6, 19, 24}}
  \cup {[finite |-> FALSE, halves |-> 0]}

\* Math.round of a number given in halves
round(halves) == (halves + 1) \div 2

\* a plausible slip: the upper limit is not applied
normalizeRounds_NoCap(raw) ==
  LET rounds == IF raw.finite THEN round(raw.halves) ELSE 3 IN
  IF rounds < 1 THEN 1 ELSE rounds

\* normalizeParsedArgs, the rounds it returns
normalizeRounds(raw) ==
  LET rounds == IF raw.finite THEN round(raw.halves) ELSE 3 IN
  IF rounds < 1 THEN 1 ELSE IF rounds > 10 THEN 10 ELSE rounds

\* how the first run of an agent stands when main stops waiting: it exited
\* with code 0, it was stopped with /kill, or it is still running
FirstRuns == {"success", "killed", "running"}

firstRun(kind, task) ==
  LET started == runTask(AgentRunner, task, TRUE)
      exited(s) == handleExit([s EXCEPT !.alive = 0], 0) IN
  CASE kind = "success" -> exited(started)
    [] kind = "killed"  -> exited(terminate(started))
    [] OTHER            -> started

\* the state in which main enters the reviewer loop
ReviewStart(raw, first, detail) ==
  /\ \E a \in Agents : first[a] = "success"
  /\ sup = [a \in Agents |->
              firstRun(first[a], IF detail THEN TASK ELSE "none")]
  /\ completionMap = [a \in Agents |-> sup[a].result]
  /\ orch = [InitOrch("review", normalizeRounds(raw)) EXCEPT
               !.configured = raw, !.detail = detail, !.r = 1,
               !.workspaces = Len(AGENT_IDS),
               !.agentResults = [a \in Agents |-> agentResult(a)],
               !.faults = Cardinality({a \in Agents : first[a] = "killed"})]
  /\ repo = InitRepo
  /\ dnf = InitDnf

ReviewInit ==
  \E raw \in RawRounds, first \in [Agents -> FirstRuns] :
    /\ (\E a \in Agents : first[a] = "running") => normalizeRounds(raw) = 1
    /\ ReviewStart(raw, first, FALSE)

PlanInit ==
  \E raw \in RawRounds, first \in [Agents -> FirstRuns \ {"running"}] :
    /\ normalizeRounds(raw) = 1
    /\ ReviewStart(raw, first, TRUE)

ReviewNext ==
  \/ Cleanup
  \/ \E a \in Agents : UserKill(a)
  \/ ReviewSteps \/ MergeSteps \/ SupervisorEvents

ReviewSpec == ReviewInit /\ [][ReviewNext]_vars

PlanSpec == PlanInit /\ [][ReviewNext]_vars

(***************************************************************************)
(* parseFirstJson, applied to the stdout of a reviewer                     *)
(* The output is a sequence of pieces: an opening brace, a closing brace,  *)
(* or a stretch of other text (prose outside an object, members inside).   *)
(* A stretch of the output is a well-formed object when it opens with a    *)
(* brace that is closed by its last piece.                                 *)
(***************************************************************************)
\* pieces in a reviewer output
MaxPieces == 4

Pieces == {"{", "}", "text"}
Outputs == SeqsUpTo(Pieces, MaxPieces)

\* open braces minus closing braces among the first k pieces
depth(s, k) ==
  Cardinality({i \in 1..k : s[i] = "{"}) - Cardinality({i \in 1..k : s[i] = "}"})

\* JSON.parse accepts the stretch as an object
parses(s) ==
  /\ Len(s) >= 2 /\ s[1] = "{" /\ s[Len(s)] = "}"
  /\ depth(s, Len(s)) = 0
  /\ \A k \in 1..(Len(s) - 1) : depth(s, k) >= 1

NoObject == [found |-> FALSE, from |-> 0, to |-> 0]

\* s.match(/\{[\s\S]*\}/): from the first opening brace to the last closing
\* brace after it
match(s) ==
  LET opens == {i \in 1..Len(s) : s[i] = "{"}
      first == CHOOSE i \in opens : \A k \in opens : i <= k
      closes == {j \in 1..Len(s) : s[j] = "}" /\ j > first}
      last == CHOOSE j \in closes : \A k \in closes : j >= k IN
  IF opens = {} \/ closes = {} THEN NoObject
  ELSE [found |-> TRUE, from |-> first, to |-> last]

\* the stretch of the output parseFirstJson returns as the decision
parseFirstJson(s) ==
  LET m == match(s) IN
  IF m.found /\ parses(SubSeq(s, m.from, m.to)) THEN m ELSE NoObject

ParseInit ==
  /\ sup = [a \in Agents |-> AgentRunner]
  /\ completionMap = NoResults
  /\ \E s \in Outputs :
       orch = [pc |-> "reviewer", stdout |-> s, decision |-> NoObject]
  /\ repo = InitRepo
  /\ dnf = InitDnf

\* doReview: const decision = parseFirstJson(stdout)
Parse ==
  /\ orch.pc = "reviewer"
  /\ orch' = [orch EXCEPT !.pc = "parsed",
                          !.decision = parseFirstJson(orch.stdout)]
  /\ UNCHANGED <<sup, completionMap, repo, dnf>>

ParseSpec == ParseInit /\ [][Parse]_vars

(***************************************************************************)
(* C1: for every supervisor, in every reachable state, at most one agent   *)
(* process launched by it is alive.                                        *)
(***************************************************************************)
C1_AtMostOneProcess == \A a \in Agents : sup[a].alive <= 1

\* a restarted process is alive after an earlier one of the same run exited
C1_Witness ==
  \E a \in Agents : sup[a].alive = 1 /\ sup[a].restarts >= 1 /\ sup[a].proc

(***************************************************************************)
(* C2: within one run() call the restart count never exceeds               *)
(* MAX_AGENT_RESTARTS; once a failure has found the budget exhausted the   *)
(* status is failed and stays failed, with no launch and no live process,  *)
(* until run() is called again.                                            *)
(***************************************************************************)
Exhausted(s) == s.status = "failed" /\ s.restarts = MAX_AGENT_RESTARTS

\* run() is the only operation that installs a completion resolver
RunCalled(a) == ~sup[a].completionResolver /\ sup'[a].completionResolver

C2_RestartBudget ==
  /\ [](\A a \in Agents : sup[a].restarts <= MAX_AGENT_RESTARTS)
  /\ [][\A a \in Agents :
          Exhausted(sup[a]) /\ ~RunCalled(a) =>
            /\ sup'[a].status = "failed"
            /\ sup'[a].launches = sup[a].launches
            /\ sup'[a].alive = 0 /\ sup'[a].timers = 0]_vars

\* the fourth failure of a run has settled it as failed
C2_Witness ==
  \E a \in Agents :
    /\ Exhausted(sup[a]) /\ sup[a].result = "dnf"
    /\ sup[a].reason \in {"exit code", "spawn failed"}

(***************************************************************************)
(* C3: every accepted run() yields exactly one outcome: settle() is called *)
(* once per run, after at most 1 + MAX_AGENT_RESTARTS launches; and if     *)
(* every launched process exits and every backoff timer fires, a pending   *)
(* run is eventually settled.                                              *)
(***************************************************************************)
C3_OneOutcome ==
  /\ [](\A a \in Agents :
          /\ sup[a].settleCalls <= 1
          /\ sup[a].completionResolver => sup[a].settleCalls = 0
          /\ sup[a].launches <= 1 + MAX_AGENT_RESTARTS)
  /\ \A a \in Agents :
       sup[a].completionResolver ~> ~sup[a].completionResolver

\* a run settled after using all of its launches
C3_Witness ==
  \E a \in Agents :
    /\ ~sup[a].completionResolver /\ sup[a].settleCalls = 1
    /\ sup[a].launches = 1 + MAX_AGENT_RESTARTS

(***************************************************************************)
(* C4: whenever applyMergePlan returns ok:false, the base branch is        *)
(* checked out and the working tree is clean (nothing unmerged, nothing    *)
(* modified).                                                              *)
(***************************************************************************)
C4_FailedMergeRestoresBase ==
  orch.mergeResult = "failed" =>
    repo.branch = "base" /\ ~repo.dirty /\ ~repo.merging

(***************************************************************************)
(* C5: applyMergePlan is invoked only from a reviewer attempt whose parsed *)
(* decision has status "approve".                                          *)
(***************************************************************************)
MergePcs == {"merge_create", "merge_branches", "merge_abort", "merge_checks",
             "merge_check_failed", "merge_finish"}

C5_MergeOnlyOnApprove ==
  /\ orch.mergeFor \subseteq {"approve"}
  /\ (orch.pc \in MergePcs \/ orch.mergeResult # "none")
       => orch.mergeFor = {"approve"}

\* applyMergePlan has run to its end for an approve decision
C5_Witness == orch.mergeFor = {"approve"} /\ orch.mergeResult = "ok"

(***************************************************************************)
(* C6: doReview is invoked if and only if at least one first run had       *)
(* delivered success when main stopped waiting; when none had, the run     *)
(* ends did-not-finish with reason "No agent completed the task".          *)
(***************************************************************************)
Collected == orch.pc \notin {"harness", "start", "agents", "grace"}
               /\ orch.uncaught # "setup"

C6_ReviewIffSuccess ==
  /\ ~Collected => orch.r = 0
  /\ Collected =>
       (orch.r >= 1 <=> \E a \in Agents : completionMap[a] = "success")
  /\ (Collected /\ orch.r = 0) =>
       /\ orch.finalStatus = "dnf"
       /\ orch.dnfReason = "No agent completed the task"
       /\ orch.pc \in {"cleanup", "done"}

\* a run in which no first run succeeded has ended without any review
C6_Witness ==
  /\ orch.pc = "done" /\ orch.r = 0
  /\ \A a \in Agents : completionMap[a] # "success"
  /\ orch.dnfReason = "No agent completed the task"

(***************************************************************************)
(* C7: once the three workspaces exist, every end of the run (approved,    *)
(* did-not-finish, or an exception during agent runs, review or merge) is  *)
(* preceded by the attempt to remove the workspaces.                       *)
(***************************************************************************)
C7_CleanupBeforeEveryEnd ==
  (Exited /\ orch.workspaces = Len(AGENT_IDS)) => orch.cleaned

(***************************************************************************)
(* C8: a run whose final status is did-not-finish has written a run-record *)
(* stating the final reason before workspace cleanup starts.               *)
(***************************************************************************)
C8_DnfIsRecorded ==
  /\ [](orch.finalStatus = "dnf" =>
          /\ orch.dnfReason # "none"
          /\ orch.dnfReason \in dnf.written)
  /\ [][(orch.finalStatus # "dnf" /\ orch'.finalStatus = "dnf") =>
          /\ dnf'.writes = dnf.writes + 1
          /\ dnf'.file = orch'.dnfReason
          /\ ~orch'.cleaned]_vars

\* the round limit was reached and the run has ended did-not-finish
C8_Witness ==
  /\ orch.pc = "done" /\ orch.finalStatus = "dnf"
  /\ orch.dnfReason = "Reviewer did not approve within allotted rounds"

(***************************************************************************)
(* C9: during one run DNF.md is written at most once, and a run that ends  *)
(* approved has written no run-record.                                     *)
(***************************************************************************)
C9_RecordAtMostOnce ==
  /\ dnf.writes <= 1
  /\ orch.finalStatus = "approved" => dnf.writes = 0

(***************************************************************************)
(* C10: no failure of a supervisor operation (first run, restart, spawn    *)
(* failure, revision run) leaves main as an uncaught exception; a run that *)
(* cannot go on ends with a run-record.                                    *)
(***************************************************************************)
C10_NoSupervisorFailureEscapes ==
  /\ orch.uncaught # "already running"
  /\ (orch.pc = "crashed" /\ orch.workspaces = Len(AGENT_IDS))
       => dnf.writes > 0

(***************************************************************************)
(* C11: while doReview or applyMergePlan is running (operations on the     *)
(* shared base checkout), no supervisor has a live process, except the     *)
(* supervisor running a revision that doReview is awaiting.                *)
(***************************************************************************)
ReviewPcs == {"review", "reviewer", "revision", "revision_wait"}

AwaitedRevision(a) ==
  orch.pc = "revision_wait" /\ Len(orch.revisions) > 0 /\ a = orch.revisions[1]

C11_BaseCheckoutIsExclusive ==
  orch.pc \in ReviewPcs \cup MergePcs =>
    \A a \in Agents : sup[a].alive = 0 \/ AwaitedRevision(a)

(***************************************************************************)
(* C12: when a process was killed for idle timeout and relaunched, and the *)
(* relaunched process exceeds the idle threshold with no output in         *)
(* between, the heartbeat gives up: it writes the run-record "Agent        *)
(* stuck/unresponsive", no further launch is scheduled, and the run        *)
(* settles did-not-finish.                                                 *)
(***************************************************************************)
IdleTimeoutReading == DEFAULT_AGENT_IDLE_TIMEOUT_MS + 1

\* a live process not yet killed by the idle check, one idle timeout counted
SecondIdleCase(s) ==
  s.proc /\ s.idleTimer /\ ~s.idleKilled /\ s.consecutiveIdleRestarts = 1

\* the supervisor has been told to stop and waits for its process to exit
Stopping(s) == s.proc /\ s.stopRequested

SettledDnf(s) == ~s.completionResolver /\ s.result = "dnf"

C12_SecondIdleGivesUp ==
  /\ [](\A a \in Agents : SecondIdleCase(sup[a]) =>
          heartbeatVerdict(sup[a], IdleTimeoutReading, IdleTimeoutReading)
            = "giveUp")
  /\ [][\A a \in Agents :
          (SecondIdleCase(sup[a])
             /\ sup'[a].consecutiveIdleRestarts = 2) =>
            /\ dnf'.writes = dnf.writes + 1
            /\ dnf'.file = "Agent stuck/unresponsive"
            /\ Stopping(sup'[a]) /\ ~sup'[a].idleTimer
            /\ sup'[a].launches = sup[a].launches
            /\ sup'[a].timers = 0]_vars
  /\ [][\A a \in Agents :
          Stopping(sup[a]) =>
            /\ sup'[a].launches = sup[a].launches
            /\ sup'[a].timers = 0
            /\ Stopping(sup'[a]) \/ SettledDnf(sup'[a])]_vars
  /\ \A a \in Agents : Stopping(sup[a]) ~> SettledDnf(sup[a])

\* relaunched after one idle kill, given up at the second, exit handled
C12_Witness ==
  \E a \in Agents :
    /\ sup[a].consecutiveIdleRestarts = 2 /\ sup[a].launches = 2
    /\ sup[a].restarts = 1 /\ ~sup[a].proc
    /\ SettledDnf(sup[a]) /\ sup[a].reason = "Stopped manually"
    /\ dnf.file = "Agent stuck/unresponsive"

(***************************************************************************)
(* C13: a first idle timeout never causes permanent give-up: the process   *)
(* is killed once and its exit goes through the ordinary restart path,     *)
(* whenever that exit is observed relative to later heartbeat checks.      *)
(***************************************************************************)
\* the process was killed at its first idle timeout; its exit is pending
FirstIdleKillPending(s) ==
  s.proc /\ s.idleKilled /\ s.consecutiveIdleRestarts = 1

C13_FirstIdleNeverGivesUp ==
  [][\A a \in Agents :
       (FirstIdleKillPending(sup[a]) /\ ~sup[a].stopRequested) =>
         ~(sup'[a].stopRequested
             /\ sup'[a].consecutiveIdleRestarts = 2)]_vars

(***************************************************************************)
(* C14: at a heartbeat check with a live process, if at least 3            *)
(* consecutive tool errors are counted (the count is reset only by a       *)
(* successful tool record, not by other output) and more than 2 minutes    *)
(* have passed since the last successful action, the process is killed     *)
(* with no restart scheduled and the run-record "Agent stuck in error      *)
(* loop" is written.                                                       *)
(***************************************************************************)
ErrorLoopReadings ==
  {r \in IdleReadings \X SuccessReadings :
     r[1] <= r[2] /\ r[2] > ERROR_LOOP_AFTER_MS}

ErrorLoopCase(s) ==
  s.proc /\ s.idleTimer /\ s.consecutiveErrors >= MAX_CONSECUTIVE_ERRORS

C14_ErrorLoopStops ==
  /\ [](\A a \in Agents : \A r \in ErrorLoopReadings :
          ErrorLoopCase(sup[a]) =>
            LET h == heartbeat(sup[a], r[1], r[2]) IN
            /\ Stopping(h) /\ ~h.idleTimer
            /\ h.timers = 0 /\ h.launches = sup[a].launches
            /\ heartbeatRecord(sup[a], r[1], r[2])
                 = "Agent stuck in error loop")
  /\ [](\A a \in Agents :
          sup[a].alive > 0 =>
            onMessage(touch(sup[a]), "text").consecutiveErrors
              = sup[a].consecutiveErrors)
  /\ [][\A a \in Agents :
          (ErrorLoopCase(sup[a]) /\ ~sup[a].stopRequested
             /\ ~sup'[a].idleTimer /\ sup'[a].proc) =>
            /\ Stopping(sup'[a])
            /\ dnf'.file = "Agent stuck in error loop"
            /\ dnf'.writes = dnf.writes + 1]_vars
  /\ [][\A a \in Agents :
          (Stopping(sup[a]) /\ ~sup'[a].proc) =>
            /\ sup'[a].status = "idle"
            /\ sup'[a].timers = 0
            /\ sup'[a].restarts = sup[a].restarts]_vars

\* the error-loop check has fired after an ordinary line followed 3 errors
C14_Witness ==
  \E a \in Agents :
    /\ Stopping(sup[a]) /\ ~sup[a].idleTimer
    /\ sup[a].consecutiveErrors = MAX_CONSECUTIVE_ERRORS
    /\ sup[a].consecutiveIdleRestarts = 0
    /\ dnf.file = "Agent stuck in error loop"

(***************************************************************************)
(* C15: if terminate() is called while the supervisor's process is alive,  *)
(* the next exit of that process settles the run did-not-finish with       *)
(* reason "Stopped manually", whatever the exit code; the restart count    *)
(* is not incremented and no restart is scheduled.                         *)
(***************************************************************************)
StoppedManually(s) == SettledDnf(s) /\ s.reason = "Stopped manually"

C15_TerminateStopsRun ==
  /\ [](\A a \in Agents : sup[a].proc =>
          /\ sup[a].completionResolver
          /\ Stopping(terminate(sup[a]))
          /\ \A exitCode \in ExitCodes :
               LET x == handleExit(terminate(sup[a]), exitCode) IN
               /\ StoppedManually(x)
               /\ x.restarts = sup[a].restarts
               /\ x.timers = 0 /\ x.launches = sup[a].launches)
  /\ [][\A a \in Agents :
          Stopping(sup[a]) =>
            \/ Stopping(sup'[a]) /\ sup'[a].restarts = sup[a].restarts
            \/ /\ StoppedManually(sup'[a])
               /\ sup'[a].restarts = sup[a].restarts
               /\ sup'[a].timers = 0 /\ sup'[a].alive = 0
               /\ sup'[a].launches = sup[a].launches]_vars

\* terminate() during a restarted process, and that process has exited
C15_Witness ==
  \E a \in Agents :
    /\ StoppedManually(sup[a]) /\ sup[a].status = "idle"
    /\ sup[a].restarts = 1 /\ sup[a].launches = 2
    /\ dnf.writes = 0

(***************************************************************************)
(* C16: terminate() is idempotent: after a terminate() call on a           *)
(* supervisor with a live process, a second call, whenever it is issued,   *)
(* returns false ("not running") and has no further effect.                *)
(***************************************************************************)
\* terminate() has been called on the live process: only terminate() sets
\* stopRequested and leaves the heartbeat running
Terminated(s) == s.proc /\ s.stopRequested /\ s.idleTimer

C16_SecondTerminateIsNoop ==
  \A a \in Agents :
    Terminated(sup[a]) =>
      /\ ~terminateReturns(sup[a])
      /\ terminate(sup[a]) = sup[a]

(***************************************************************************)
(* C17: after notifyGlobalTimeout() the exit of the supervisor's process   *)
(* is reported did-not-finish with reason "Global timeout reached",        *)
(* whatever the exit code and whatever other requests (terminate, a        *)
(* heartbeat give-up) were made, and no restart follows.                   *)
(***************************************************************************)
C17_GlobalTimeoutIsReported ==
  [][\A a \in Agents :
       (sup[a].globalTimeout /\ sup[a].proc /\ ~sup'[a].proc) =>
         /\ SettledDnf(sup'[a])
         /\ sup'[a].reason = "Global timeout reached"
         /\ sup'[a].timers = 0]_vars

(***************************************************************************)
(* C18: a run that ends because the restart budget is exhausted, because   *)
(* the agent was terminated by the user, or because the global timeout     *)
(* was reached leaves the supervisor in status failed; exit code 0         *)
(* without any of these leaves it completed.                               *)
(***************************************************************************)
C18_EndStatus ==
  \A a \in Agents :
    /\ SettledDnf(sup[a]) => sup[a].status = "failed"
    /\ (~sup[a].completionResolver /\ sup[a].result = "success")
         => sup[a].status = "completed"

(***************************************************************************)
(* C19: run() called while the status is running or restarting fails at    *)
(* once with "already running", launches no process and leaves the         *)
(* supervisor's state (restart count, backoff, stop and timeout flags,     *)
(* pending outcome) unchanged.                                             *)
(***************************************************************************)
Busy(s) == s.status \in {"running", "restarting"}

RunRefused ==
  orch.uncaught # "already running" /\ orch'.uncaught = "already running"

C19_RunRefusedWhileBusy ==
  /\ [](\A a \in Agents : Busy(sup[a]) => sup[a].completionResolver)
  /\ [][RunRefused =>
          /\ sup' = sup /\ completionMap' = completionMap
          /\ \E a \in Agents : Busy(sup[a])]_vars
  /\ [][\A a \in Agents :
          Busy(sup[a]) =>
            /\ sup'[a].launches >= sup[a].launches
            /\ sup'[a].restarts >= sup[a].restarts
            /\ sup'[a].backoffMs >= sup[a].backoffMs
            /\ sup'[a].alive > sup[a].alive =>
                 sup'[a].timers < sup[a].timers
            /\ sup[a].globalTimeout => sup'[a].globalTimeout
            /\ (sup[a].stopRequested /\ sup'[a].proc)
                 => sup'[a].stopRequested]_vars

\* a run() call was refused while the supervisor waited for its 2nd restart
C19_Witness ==
  /\ orch.pc = "harness" /\ orch.uncaught = "already running"
  /\ sup[orch.focus].status = "restarting"
  /\ sup[orch.focus].restarts = 2

(***************************************************************************)
(* C20: within one run() call the delay before the k-th restart (k = 1..3) *)
(* is min(2500 * 2^(k-1), 120000) ms, i.e. 2.5 s, 5 s, 10 s, and every new *)
(* run() call starts again from restart count 0 and delay 2.5 s.           *)
(***************************************************************************)
ExpectedDelay(k) ==
  Min(INITIAL_AGENT_BACKOFF_MS * 2^(k - 1), MAX_AGENT_BACKOFF_MS)

C20_BackoffSchedule ==
  /\ [](<<ExpectedDelay(1), ExpectedDelay(2), ExpectedDelay(3)>>
          = <<2500, 5000, 10000>>)
  /\ [](\A a \in Agents :
          /\ sup[a].restarts \in 0..MAX_AGENT_RESTARTS
          /\ restartDelay(sup[a]) = ExpectedDelay(sup[a].restarts + 1))
  /\ [][\A a \in Agents :
          (~RunCalled(a) /\ sup'[a].restarts # sup[a].restarts) =>
            /\ sup'[a].restarts = sup[a].restarts + 1
            /\ sup'[a].status = "restarting" /\ sup'[a].timers = 1
            /\ restartDelay(sup[a]) = ExpectedDelay(sup'[a].restarts)]_vars
  /\ [][\A a \in Agents :
          RunCalled(a) =>
            IF sup'[a].status = "restarting"
              THEN /\ sup'[a].restarts = 1
                   /\ sup'[a].backoffMs = 2 * INITIAL_AGENT_BACKOFF_MS
              ELSE /\ sup'[a].restarts = 0
                   /\ sup'[a].backoffMs = INITIAL_AGENT_BACKOFF_MS]_vars

\* a second run() has used its three restarts after the first one had too
C20_Witness ==
  \E a \in Agents :
    /\ orch.pc = "harness" /\ orch.runs = 2
    /\ sup[a].status = "failed" /\ sup[a].restarts = MAX_AGENT_RESTARTS
    /\ sup[a].launches = 1 + MAX_AGENT_RESTARTS
    /\ sup[a].backoffMs = 20000

(***************************************************************************)
(* C21  An automatic nudge is sent only to a supervisor with a live        *)
(* process that has produced no output for more than NUDGE_AFTER_MS and    *)
(* whose previous automatic nudge is more than NUDGE_AFTER_MS ago; so two  *)
(* automatic nudges of one supervisor are more than NUDGE_AFTER_MS apart.  *)
(***************************************************************************)
Nudged(a) == sup'[a].lastNudge # sup[a].lastNudge

C21_NudgesAreSpaced ==
  [][\A a \in Agents :
       Nudged(a) =>
         /\ sup[a].proc
         /\ orch.now - sup[a].lastActivity > NUDGE_AFTER_MS
         /\ orch.now - sup[a].lastNudge > NUDGE_AFTER_MS
         /\ sup'[a].lastNudge = orch.now
         /\ sup'[a].lastNudge - sup[a].lastNudge > NUDGE_AFTER_MS]_vars

\* a supervisor has been nudged a second time
C21_Witness ==
  \E a \in Agents : sup[a].nudges = 2 /\ sup[a].proc

(***************************************************************************)
(* C22  In one review round the reviewer is started at most                *)
(* REVIEWER_MAX_RETRIES times; an attempt that times out, exits non-zero   *)
(* or yields no parseable decision is followed by another attempt, and     *)
(* after the third such failure the round returns did-not-finish with the  *)
(* error of the last attempt.                                              *)
(***************************************************************************)
FailedAttempts == {att \in ReviewerAttempts(TRUE) : doReviewBranch(att) = "retry"}

C22_ReviewerRetries ==
  /\ [](orch.attempt <= REVIEWER_MAX_RETRIES)
  /\ [](orch.pc = "reviewer" => orch.attempt >= 1)
  /\ [][\A att \in ReviewerAttempts(TRUE) :
          ReviewerAttempt(att) /\ (att.exit # "zero" \/ att.decision = "none") =>
            /\ att \in FailedAttempts
            /\ IF orch.attempt < REVIEWER_MAX_RETRIES
                 THEN /\ orch'.pc = "reviewer"
                      /\ orch'.attempt = orch.attempt + 1
                      /\ orch'.finalStatus = "pending"
                 ELSE /\ orch'.pc = "cleanup"
                      /\ orch'.finalStatus = "dnf"
                      /\ orch'.dnfReason = "Reviewer failed to converge"
                      /\ orch'.dnfDetails = attemptError(att)
                      /\ dnf'.file = "Reviewer failed to converge"]_vars

\* the third attempt of a round has failed after two failures of another kind
C22_Witness ==
  /\ orch.pc = "cleanup" /\ orch.dnfReason = "Reviewer failed to converge"
  /\ orch.dnfDetails = "Reviewer exited with code"

(***************************************************************************)
(* C23  Once an attempt of the reviewer has produced approve, or revise    *)
(* with at least one revision, the round starts no further attempt: a      *)
(* failed merge or a revision run that ends did-not-finish makes the round *)
(* return did-not-finish at once, and the agents listed after a failed     *)
(* revision are not run.                                                   *)
(***************************************************************************)
DecidedPcs == MergePcs \cup {"revision", "revision_wait"}

RevisionFailed ==
  /\ orch.pc = "revision_wait" /\ orch'.pc # "revision_wait"
  /\ sup[orch.revisions[1]].result # "success"

C23_NoRetryAfterDecision ==
  [][/\ orch.pc \in DecidedPcs =>
          orch'.pc # "reviewer" /\ orch'.attempt = 0
     /\ (orch.pc \in MergePcs /\ orch'.mergeResult = "failed") =>
          /\ orch'.pc = "cleanup" /\ orch'.finalStatus = "dnf"
          /\ orch'.r = orch.r
     /\ RevisionFailed =>
          /\ orch'.pc = "cleanup" /\ orch'.finalStatus = "dnf"
          /\ orch'.r = orch.r /\ orch'.revisions = << >>
          /\ sup' = sup
     /\ orch.pc \in {"cleanup", "done"} =>
          \A a \in Agents : ~RunCalled(a)]_vars

\* a revision run has ended did-not-finish and the round has returned
C23_Witness ==
  /\ orch.pc = "cleanup" /\ orch.finalStatus = "dnf"
  /\ orch.dnfReason = "Agent could not complete reviewer instructions"
  /\ \E a \in Agents : StoppedManually(sup[a]) /\ sup[a].launches = 1

(***************************************************************************)
(* C24  For a revise decision run() is called only on the agents named in  *)
(* the revisions list, one at a time, each with the original task followed *)
(* by the reviewer's instructions; the other agents are not run and their  *)
(* state does not change; if every named run succeeds the round returns    *)
(* revisions-issued.                                                       *)
(***************************************************************************)
RevisionsIssued ==
  \/ orch'.pc = "review" /\ orch'.r = orch.r + 1
       /\ orch'.finalStatus = "pending"
  \/ orch.r >= orch.rounds /\ orch'.pc = "cleanup"
       /\ orch'.dnfReason = "Reviewer did not approve within allotted rounds"

C24_OnlyNamedAgentsRerun ==
  [][/\ \A a \in Agents :
          RunCalled(a) =>
            /\ orch.pc = "revision" /\ a = orch.revisions[1]
            /\ orch'.pc = "revision_wait"
            /\ orch'.revisions = orch.revisions
            /\ sup'[a].currentTask
                 = "task Follow up from reviewer: instructions"
                     \o " Keep going until checks pass."
     /\ orch.pc \in {"revision", "revision_wait"} =>
          \A b \in Agents : b # orch.revisions[1] => sup'[b] = sup[b]
     /\ orch.pc = "revision_wait" =>
          \/ orch'.pc = "revision_wait"
          \/ RevisionFailed
          \/ Len(orch.revisions) > 1 /\ orch'.pc = "revision"
               /\ orch'.revisions = Tail(orch.revisions)
          \/ Len(orch.revisions) = 1 /\ RevisionsIssued]_vars

\* the round has returned revisions-issued after the run of one named
\* agent; the other two still hold the task of their first run
C24_Witness ==
  /\ orch.pc = "cleanup"
  /\ orch.dnfReason = "Reviewer did not approve within allotted rounds"
  /\ \E a \in Agents :
       /\ sup[a].currentTask # TASK /\ sup[a].result = "success"
       /\ \A b \in Agents \ {a} : sup[b].currentTask = TASK

(***************************************************************************)
(* C25  main invokes a review round at most N times, N being the number    *)
(* given with --rounds rounded and brought into 1..10 (3 when it is absent *)
(* or not a number); it stops at the first round that returns approved or  *)
(* did-not-finish, and when all N rounds return revisions-issued the run   *)
(* is recorded did-not-finish.                                             *)
(***************************************************************************)
RoundLimit ==
  LET v == IF orch.configured.finite THEN round(orch.configured.halves)
           ELSE 3 IN
  IF v < 1 THEN 1 ELSE IF v > 10 THEN 10 ELSE v

LastRoundAsksRevisions ==
  /\ orch.pc = "revision_wait" /\ orch'.pc \notin {"revision_wait", "revision"}
  /\ ~RevisionFailed
  /\ orch.r = RoundLimit

C25_RoundLimit ==
  /\ [](orch.rounds = RoundLimit /\ orch.r \in 1..RoundLimit)
  /\ [][/\ orch'.r # orch.r =>
             /\ orch'.r = orch.r + 1
             /\ orch.pc = "revision_wait" /\ orch'.pc = "review"
        /\ (orch.pc # "review" /\ orch'.pc = "review") =>
             orch'.r = orch.r + 1
        /\ (orch.finalStatus = "pending" /\ orch'.finalStatus # "pending") =>
             orch'.pc = "cleanup" /\ orch'.r = orch.r
        /\ orch.finalStatus # "pending" =>
             /\ orch'.pc \in {"cleanup", "done"}
             /\ orch'.finalStatus = orch.finalStatus
        /\ LastRoundAsksRevisions =>
             /\ orch'.finalStatus = "dnf"
             /\ orch'.dnfReason
                  = "Reviewer did not approve within allotted rounds"
             /\ dnf'.file = orch'.dnfReason]_vars

\* with --rounds 12 the tenth round has returned revisions-issued
C25_Witness ==
  /\ orch.configured = [finite |-> TRUE, halves |-> 24]
  /\ orch.r = 10 /\ orch.pc = "cleanup"
  /\ orch.dnfReason = "Reviewer did not approve within allotted rounds"
  /\ dnf.file = orch.dnfReason

(***************************************************************************)
(* C26  When at least one agent has succeeded, the review uses only the    *)
(* branches of agents with a successful result: the branch of an agent     *)
(* that failed or is still running is neither handed to the reviewer nor   *)
(* part of the default merge order.                                        *)
(***************************************************************************)
Usable == {a \in Agents : orch.agentResults[a] = "success"}

C26_OnlyUsableBranches ==
  /\ orch.pc = "reviewer" => reviewerBranches(orch.agentResults) \subseteq Usable
  /\ (orch.pc \in MergePcs /\ ~orch.detail) =>
       \A i \in 1..Len(orch.order) : orch.order[i] \in Usable

(***************************************************************************)
(* C27  When the round timeout expires before all three first runs have    *)
(* settled, main goes on to the review without waiting for them: it uses   *)
(* the outcomes produced so far and counts every agent without an outcome  *)
(* as did-not-finish when it decides between review and giving up.         *)
(***************************************************************************)
Unsettled == {a \in Agents : completionMap[a] = "none"}

StopsWaiting == orch.pc = "grace" /\ orch'.pc # "grace"

C27_TimeoutUsesOutcomesSoFar ==
  /\ [][(orch.pc = "agents" /\ orch'.pc = "grace") =>
          sup' = sup /\ completionMap' = completionMap]_vars
  /\ [](orch.pc = "grace" => ENABLED GraceElapsed)
  /\ [][StopsWaiting =>
          /\ sup' = sup /\ completionMap' = completionMap
          /\ \A a \in Agents :
               orch'.agentResults[a]
                 = IF a \in Unsettled THEN "dnf" ELSE completionMap[a]
          /\ IF \E a \in Agents : completionMap[a] = "success"
               THEN orch'.pc = "review" /\ orch'.finalStatus = "pending"
               ELSE /\ orch'.pc = "cleanup" /\ orch'.finalStatus = "dnf"
                    /\ orch'.dnfReason = "No agent completed the task"]_vars

\* main is in the reviewer loop after a round timeout, with one agent's
\* outcome in hand and another agent still running and counted as failed
C27_Witness ==
  /\ orch.pc = "review"
  /\ \E a, b \in Agents :
       /\ completionMap[a] = "success" /\ orch.agentResults[a] = "success"
       /\ b \in Unsettled /\ sup[b].status = "running" /\ sup[b].proc
       /\ orch.agentResults[b] = "dnf"

(***************************************************************************)
(* C28  applyMergePlan merges the branches strictly in the order it is     *)
(* given and stops at the first branch that does not merge: it returns     *)
(* ok:false with a "Merge conflict" reason that names that branch, merges  *)
(* no later branch and runs no post-merge check.                           *)
(***************************************************************************)
IsPrefix(s, u) == Len(s) <= Len(u) /\ \A i \in 1..Len(s) : s[i] = u[i]

NextBranch == orch.order[Len(orch.merged) + 1]

C28_StopsAtFirstConflict ==
  /\ [](IsPrefix(orch.merged, orch.order))
  /\ [](orch.pc \in {"merge_checks", "merge_check_failed", "merge_finish"}
          => orch.merged = orch.order)
  /\ [](orch.pc = "merge_abort" => orch.check = 0 /\ orch.checkAttempt = 0)
  /\ [][/\ (orch.pc = "merge_branches" /\ orch'.merged # orch.merged) =>
             orch'.merged = Append(orch.merged, NextBranch)
        /\ MergeBranch(FALSE) =>
             orch'.pc = "merge_abort" /\ orch'.merged = orch.merged
        /\ orch.pc = "merge_abort" =>
             /\ orch'.pc = "cleanup" /\ orch'.mergeResult = "failed"
             /\ orch'.finalStatus = "dnf"
             /\ orch'.dnfReason = "Merge conflict with " \o NextBranch
             /\ orch'.merged = orch.merged
             /\ orch'.check = 0 /\ orch'.checkAttempt = 0
        /\ orch.mergeResult = "failed" =>
             /\ orch'.merged = orch.merged
             /\ orch'.check = 0 /\ orch'.checkAttempt = 0]_vars

\* the second branch of the reviewer's order did not merge
C28_Witness ==
  /\ orch.order = <<"codex", "gemini">> /\ orch.merged = <<"codex">>
  /\ orch.mergeResult = "failed"
  /\ orch.dnfReason = "Merge conflict with gemini"

(***************************************************************************)
(* C29  A post-merge check that fails on every attempt is attempted        *)
(* exactly POST_MERGE_CHECK_ATTEMPTS times; applyMergePlan then returns    *)
(* ok:false with a reason naming the command and details naming its exit   *)
(* code, and runs no later check. A check that succeeds on some attempt is *)
(* not run again and counts as passed.                                     *)
(***************************************************************************)
CheckRuns(exitCode) == \E writes \in BOOLEAN : PostMergeCheck(exitCode, writes)

C29_CheckRetries ==
  /\ [](orch.pc = "merge_checks" =>
          /\ orch.check \in 1..Len(orch.checks)
          /\ orch.checkAttempt \in 1..POST_MERGE_CHECK_ATTEMPTS)
  /\ [][/\ \A exitCode \in {1, 2} :
             CheckRuns(exitCode) =>
               IF orch.checkAttempt < 3
                 THEN /\ orch'.pc = "merge_checks"
                      /\ orch'.check = orch.check
                      /\ orch'.checkAttempt = orch.checkAttempt + 1
                 ELSE /\ orch'.pc = "merge_check_failed"
                      /\ orch'.check = orch.check
                      /\ orch'.dnfDetails = "Exit code " \o ToString(exitCode)
        /\ CheckRuns(0) =>
             IF orch.check < Len(orch.checks)
               THEN /\ orch'.pc = "merge_checks"
                    /\ orch'.check = orch.check + 1
                    /\ orch'.checkAttempt = 1
               ELSE orch'.pc = "merge_finish"
        /\ orch.pc = "merge_check_failed" =>
             /\ orch'.pc = "cleanup" /\ orch'.mergeResult = "failed"
             /\ orch'.finalStatus = "dnf"
             /\ orch'.dnfReason
                  = "Post-merge check failed (" \o orch.checks[orch.check]
                      \o ")"
             /\ orch'.dnfDetails = orch.dnfDetails
        /\ orch.pc \in {"cleanup", "done"} =>
             orch'.check = 0 /\ orch'.checkAttempt = 0]_vars

\* the first of two listed checks has failed three times, last with code 2
C29_Witness ==
  /\ orch.checks = <<"bun run lint", "bun run typecheck">>
  /\ orch.mergeResult = "failed" /\ orch.pc = "cleanup"
  /\ orch.dnfReason = "Post-merge check failed (bun run lint)"
  /\ orch.dnfDetails = "Exit code 2"

(***************************************************************************)
(* C30  parseFirstJson returns the first well-formed JSON object of the    *)
(* output and ignores everything before and after it, later objects and    *)
(* stray braces included; it returns nothing only when the output holds    *)
(* no well-formed object.                                                  *)
(***************************************************************************)
Objects(s) ==
  {[found |-> TRUE, from |-> i, to |-> j] : i \in 1..Len(s), j \in 1..Len(s)}

WellFormed(s) == {o \in Objects(s) : o.from < o.to /\ parses(SubSeq(s, o.from, o.to))}

\* the well-formed object that starts first
FirstObject(s) ==
  IF WellFormed(s) = {} THEN NoObject
  ELSE CHOOSE o \in WellFormed(s) : \A q \in WellFormed(s) : o.from <= q.from

C30_FirstObjectIsReturned ==
  orch.pc = "parsed" => orch.decision = FirstObject(orch.stdout)

(***************************************************************************)
(* C31  Every idle-timeout kill follows a nudge of the same idle period    *)
(***************************************************************************)
\* the verdict of the heartbeat check that runner a makes now
VerdictNow(a) ==
  heartbeatVerdict(sup[a], orch.now - sup[a].lastActivity,
                   orch.now - sup[a].lastSuccessfulAction)

\* the heartbeat checks that kill the process for being idle
IdleKillVerdicts == {"idleKill", "giveUp"}

\* C31: with the default thresholds, whenever a heartbeat check kills the
\* process for idle timeout, the runner has nudged since the last activity
\* of that process: the time of the last nudge is later than lastActivity
\* by the time the kill is sent.
C31_IdleKillFollowsNudge ==
  [][\A a \in Agents :
       (TimedHeartbeat(a) /\ VerdictNow(a) \in IdleKillVerdicts)
         => /\ sup'[a].nudges > 0
            /\ sup'[a].lastNudge > sup[a].lastActivity]_vars

\* a process killed for idle timeout whose idle period holds a nudge made
\* by an earlier check than the one that killed it
C31_Witness ==
  \E a \in Agents :
    /\ sup[a].idleKilled /\ sup[a].alive > 0
    /\ sup[a].lastNudge > sup[a].lastActivity
    /\ sup[a].lastNudge < orch.now
    /\ orch.now - sup[a].lastActivity
         = DEFAULT_AGENT_IDLE_TIMEOUT_MS + TimeStep

(***************************************************************************)
(* C32  The outcome of a run ended by error-loop detection                 *)
(***************************************************************************)
\* the reasons run() reports for a manual stop and for a timeout
OtherStopReasons == {"Stopped manually", "Global timeout reached"}

\* the outcome once the process killed by the error-loop check has exited
afterErrorLoop(s, idleFor, timeSinceSuccess, exitCode) ==
  handleExit(heartbeat(s, idleFor, timeSinceSuccess), exitCode)

\* C32: when a heartbeat check ends a run for an error loop (no stop and no
\* global timeout was requested before), the outcome run() returns once the
\* killed process exits is did-not-finish with a reason that is neither the
\* reason of a manual stop nor the reason of a timeout.
C32_ErrorLoopReasonIsDistinct ==
  \A a \in Agents : \A r \in ErrorLoopReadings : \A exitCode \in ExitCodes :
    ( /\ ErrorLoopCase(sup[a]) /\ sup[a].completionResolver
      /\ ~sup[a].stopRequested /\ ~sup[a].globalTimeout )
      => LET e == afterErrorLoop(sup[a], r[1], r[2], exitCode) IN
         /\ SettledDnf(e)
         /\ e.reason \notin OtherStopReasons

(***************************************************************************)
(* C33  What ok:true of applyMergePlan stands for                          *)
(***************************************************************************)
\* applyMergePlan returns ok:true in this step
MergeReturnsOk == orch.mergeResult # "ok" /\ orch'.mergeResult = "ok"

\* C33: when applyMergePlan returns ok:true, the branches of the plan's
\* order (gemini, claude, codex when the plan gives none) have been merged
\* one by one in that order into the integration branch created from base,
\* every post-merge check has exited 0, the integration branch is checked
\* out, and the working tree is clean after the single final commit.
C33_OkMeansMergedCheckedClean ==
  /\ [][\A att \in ReviewerAttempts(TRUE) :
          (ReviewerAttempt(att) /\ orch'.pc = "merge_create") =>
            /\ orch'.order = IF Len(att.order) = 0
                               THEN <<"gemini", "claude", "codex">>
                               ELSE att.order
            /\ orch'.checks = IF Len(att.checks) = 0
                                THEN DEFAULT_POST_MERGE_CHECKS
                                ELSE att.checks
            /\ orch'.merged = << >>]_vars
  /\ [][(orch.pc = "merge_create" /\ orch'.pc = "merge_branches") =>
          /\ repo.branch = "base"
          /\ repo'.branch = "merge" /\ repo'.mergeBranch]_vars
  /\ [][(orch.pc = "merge_branches" /\ orch'.merged # orch.merged) =>
          /\ MergeBranch(TRUE)
          /\ repo.branch = "merge"
          /\ orch'.merged = Append(orch.merged, NextBranch)]_vars
  /\ [][(orch.pc = "merge_checks" /\ orch'.pc = "merge_checks"
           /\ orch'.check # orch.check) =>
          CheckRuns(0) /\ orch'.check = orch.check + 1]_vars
  /\ [][(orch.pc = "merge_checks" /\ orch'.pc = "merge_finish") =>
          CheckRuns(0) /\ orch.check = Len(orch.checks)]_vars
  /\ [](orch.pc \in {"merge_checks", "merge_finish"} =>
          orch.merged = orch.order /\ repo.branch = "merge")
  /\ [](orch.pc = "merge_checks" => orch.check \in 1..Len(orch.checks))
  /\ [][MergeReturnsOk =>
          /\ orch.pc = "merge_finish"
          /\ orch'.merged = orch'.order
          /\ repo'.branch = "merge" /\ repo'.mergeBranch
          /\ ~repo'.merging /\ ~repo'.dirty]_vars

\* ok:true after the default order was merged and two listed checks passed
C33_Witness ==
  /\ orch.mergeResult = "ok"
  /\ orch.merged = <<"gemini", "claude", "codex">>
  /\ Len(orch.checks) = MaxChecks
  /\ repo.branch = "merge" /\ ~repo.dirty

(***************************************************************************)
(* C34  A failed merge attempt leaves no integration branch                *)
(***************************************************************************)
\* applyMergePlan returns ok:false after it had created the branch
MergeFailsAfterCreate ==
  /\ orch.pc \in {"merge_abort", "merge_check_failed"}
  /\ orch'.mergeResult = "failed"

\* C34: when applyMergePlan returns ok:false for a merge conflict or a
\* failed post-merge check, the integration branch it created no longer
\* exists in the repository.
C34_FailedMergeLeavesNoBranch ==
  [][MergeFailsAfterCreate => ~repo'.mergeBranch]_vars

(***************************************************************************)
(* C35  Decisions that ask for nothing                                     *)
(***************************************************************************)
\* a parsed decision that is "revise" without revisions, or whose status is
\* neither approve nor revise
EmptyDecision(att) ==
  /\ att.exit = "zero"
  /\ \/ att.decision = "revise" /\ Len(att.revisions) = 0
     \/ att.decision \notin {"approve", "revise", "none"}

\* C35: a reviewer decision "revise" with an empty or missing revisions
\* list, or with a status other than approve/revise, is a failed attempt:
\* no supervisor is run and nothing is merged for it, and it uses up one of
\* the REVIEWER_MAX_RETRIES attempts of the round (after the third the round
\* returns did-not-finish).
C35_EmptyDecisionIsFailedAttempt ==
  [][\A att \in ReviewerAttempts(TRUE) :
       (ReviewerAttempt(att) /\ EmptyDecision(att)) =>
         /\ sup' = sup /\ repo' = repo /\ completionMap' = completionMap
         /\ orch'.pc \notin DecidedPcs
         /\ orch'.mergeResult = orch.mergeResult
         /\ orch'.merged = orch.merged
         /\ IF orch.attempt < REVIEWER_MAX_RETRIES
              THEN /\ orch'.pc = "reviewer"
                   /\ orch'.attempt = orch.attempt + 1
                   /\ orch'.lastError = attemptError(att)
              ELSE /\ orch'.pc = "cleanup"
                   /\ orch'.finalStatus = "dnf"
                   /\ orch'.dnfReason = "Reviewer failed to converge"
                   /\ orch'.dnfDetails = attemptError(att)]_vars

\* the third attempt is open after a "revise" that listed no revisions
C35_Witness ==
  /\ orch.pc = "reviewer" /\ orch.attempt = REVIEWER_MAX_RETRIES
  /\ orch.lastError = "Reviewer requested revisions but none listed"
  /\ orch.mergeResult = "none" /\ \A a \in Agents : sup[a].launches <= 1

(***************************************************************************)
(* C36  No launch after notifyGlobalTimeout()                              *)
(***************************************************************************)
\* runner a spawns an agent process in this step
Spawns(a) == sup'[a].alive > sup[a].alive

\* C36: from the call of notifyGlobalTimeout() to the end of the run (the
\* next accepted run() clears the flag), the supervisor spawns no agent
\* process, also when the call found it restarting.
C36_NoLaunchAfterGlobalTimeout ==
  [][\A a \in Agents :
       (sup[a].globalTimeout /\ sup'[a].globalTimeout) => ~Spawns(a)]_vars

(***************************************************************************)
(* C37  terminate() in the active states                                   *)
(***************************************************************************)
\* C37: whenever the supervisor's status is running or restarting, a call
\* of terminate() returns true and requests the stop that makes the run
\* settle did-not-finish without another launch.
C37_TerminateStopsActiveRun ==
  \A a \in Agents :
    Busy(sup[a]) =>
      /\ terminateReturns(sup[a])
      /\ terminate(sup[a]).stopRequested

(***************************************************************************)
(* C38  Health counters and a new run                                      *)
(***************************************************************************)
\* clock readings one heartbeat check can take
HeartbeatReadings == {r \in IdleReadings \X SuccessReadings : r[1] <= r[2]}

\* the verdicts that end a run for what the agent did before
HealthVerdicts == {"errorLoop", "giveUp"}

\* C38: when run() has just started a process, before that process has
\* printed anything, no heartbeat check ends the run for an error loop or
\* for repeated idleness, whatever an earlier run of the supervisor left in
\* the consecutive-error count, the last-success time and the idle-timeout
\* count.
C38_NewRunStartsHealthy ==
  [][\A a \in Agents : \A spawnOk \in BOOLEAN :
       (HarnessRun(a, spawnOk) /\ sup'[a].proc) =>
         \A r \in HeartbeatReadings :
           heartbeatVerdict(sup'[a], r[1], r[2]) \notin HealthVerdicts]_vars

(***************************************************************************)
(* C39  When the global timeout can be delivered                           *)
(***************************************************************************)
\* main has not yet computed agentResults: it waits in the race, or in the
\* grace period that follows a round timeout
FirstPhasePcs == {"start", "agents", "grace"}

\* notifyGlobalTimeout() reaches runner a in this step
Notified(a) == ~sup[a].globalTimeout /\ sup'[a].globalTimeout

\* C39 as stated: the global timer does not fire once main has stopped
\* waiting in the race for the first runs, that is, once all three have
\* settled or the round timeout has expired.
C39_NotAfterRace ==
  [][GlobalTimeout => orch.pc = "agents"]_vars

\* C39, amended: the global timer fires only before main has computed
\* agentResults, which includes the grace period after a round timeout;
\* from then on the timer is cleared and no supervisor is notified, so the
\* reviewer loop and the revision runs are never reached by it.
C39_NotAfterCollect ==
  /\ [][GlobalTimeout => orch.pc \in {"agents", "grace"}]_vars
  /\ [](orch.pc \notin FirstPhasePcs => ~orch.globalTimer)
  /\ [][orch.pc \notin FirstPhasePcs =>
          \A a \in Agents : ~Notified(a)]_vars

\* a revision run is in progress with the timer cleared and no notification
C39_Witness ==
  /\ orch.pc = "revision_wait" /\ ~orch.globalTimer
  /\ \E a \in Agents : sup[a].proc /\ sup[a].launches = 1
  /\ \A a \in Agents : ~sup[a].globalTimeout

(***************************************************************************)
(* C40  The supervisors when the workspaces are removed                    *)
(***************************************************************************)
\* C40: when main removes the worktrees at the end of the run, no agent
\* process spawned by a supervisor is still alive and no supervisor is
\* running or waiting for a restart.
C40_QuietAtCleanup ==
  [][Cleanup =>
       \A a \in Agents : sup[a].alive = 0 /\ ~Busy(sup[a])]_vars

====
